---- MODULE Spec2Model ----
(***************************************************************************)
(* A model of evalml's EvalMLAlgorithm (the batch-generation state         *)
(* machine of automl/automl_algorithm/evalml_algorithm.py) together with   *)
(* the SKOptTuner it drives (tuners/skopt_tuner.py).                       *)
(*                                                                         *)
(* The external driver calls next_batch() and add_result() in any order;   *)
(* each call is one action.  A call that raises leaves in `raised` the     *)
(* kind of the exception and in the other variables whatever the code had  *)
(* already assigned when the exception left the method.                    *)
(***************************************************************************)
EXTENDS Integers, Sequences, FiniteSets, TLC

----------------------------------------------------------------------------
(* Bounds of the model *)

\* a long search: next_batch() returns at most this many batches
MaxBatch == 7
\* numeric scores are drawn from 0..MaxScore
MaxScore == 1
\* the driver evaluates at most the first MaxEvaluated pipelines of a batch
MaxEvaluated == 2
\* at most MaxCalls calls are made on a tuner used on its own
MaxCalls == 4

(* Program constants *)

\* max_batches of a search in fast mode: batches 0 to 3
FastBatches == 4
\* n of _create_long_top_n(n=3)
TopN == 3
\* range(50) in _create_long_top_n
FirstRounds == 50
\* range(10) in the last branch of next_batch
LaterRounds == 10
\* the first batch whose non-ensemble results are forwarded to the base class
ForwardFrom == 3
\* the batch_number at which add_result captures the selected columns
CaptureAt == 2
\* n_jobs of the stacked ensemble when text_in_ensembling is set
SerialJobs == 1
\* random_seed=0, the seed of every tuner's optimizer
RandomSeed == 0
\* the default n_jobs of the algorithm and of the components that accept it
DefaultNJobs == -1
\* the batch budget of mode "long" with and without a time limit
TimedBatches == 999
LongBatches == 6

----------------------------------------------------------------------------
(* Values *)

None == "None"

\* scores: Python None, float nan, float inf, or a number
NoneScore == [kind |-> "none", val |-> 0]
NaNScore == [kind |-> "nan", val |-> 0]
InfScore == [kind |-> "inf", val |-> 0]
Num(v) == [kind |-> "num", val |-> v]

NumericScores == {Num(v) : v \in 0..MaxScore}

ScoreInputs == {NoneScore, NaNScore, InfScore} \cup NumericScores

\* Python's  a < b  on floats: false whenever either side is nan
LessThan(a, b) ==
    CASE a.kind = "nan" \/ b.kind = "nan" -> FALSE
      [] a.kind = "inf" -> FALSE
      [] b.kind = "inf" -> TRUE
      [] OTHER -> a.val < b.val

\* the column lists a fitted feature selector may report through get_names()
ColumnSets == {"colsA", "colsB"}

ProblemTypes == {"binary", "regression"}

is_regression(pt) == pt = "regression"

----------------------------------------------------------------------------
(* The component registry the algorithm consults *)

ENSEMBLE == "ensemble"

Imputer == "Imputer"
SelectColumns == "Select Columns Transformer"
RFClassifierSelectFromModel == "RF Classifier Select From Model"
RFRegressorSelectFromModel == "RF Regressor Select From Model"

\* a variant: a decision tree joins the naive estimators
NaiveEstimatorsThree(pt) ==
    IF is_regression(pt)
    THEN <<"Linear Regressor", "Random Forest Regressor", "Decision Tree Regressor">>
    ELSE <<"Logistic Regression Classifier", "Random Forest Classifier",
           "Decision Tree Classifier">>

\* the names of the naive estimators, by problem type
NaiveEstimators(pt) ==
    IF is_regression(pt)
    THEN <<"Linear Regressor", "Random Forest Regressor">>
    ELSE <<"Logistic Regression Classifier", "Random Forest Classifier">>

\* get_estimators(problem_type): every registered estimator of the problem type
get_estimators(pt) ==
    IF is_regression(pt)
    THEN <<"Decision Tree Regressor", "Extra Trees Regressor",
           "Linear Regressor", "Random Forest Regressor">>
    ELSE <<"Decision Tree Classifier", "Extra Trees Classifier",
           "Logistic Regression Classifier", "Random Forest Classifier">>

StackedEnsemble(pt) ==
    IF is_regression(pt) THEN "Stacked Ensemble Regressor" ELSE "Stacked Ensemble Classifier"

\* estimator.model_family
ModelFamilyOf(est) ==
    CASE est \in {"Linear Regressor", "Logistic Regression Classifier"} -> "linear_model"
      [] est \in {"Random Forest Regressor", "Random Forest Classifier"} -> "random_forest"
      [] est \in {"Decision Tree Regressor", "Decision Tree Classifier"} -> "decision_tree"
      [] est \in {"Extra Trees Regressor", "Extra Trees Classifier"} -> "extra_trees"
      [] OTHER -> ENSEMBLE

\* "n_jobs" in inspect.signature(component_class.__init__).parameters
AcceptsNJobs(comp) ==
    comp \notin {Imputer, SelectColumns, "Decision Tree Regressor", "Decision Tree Classifier"}

Integer(lo, hi) == [type |-> "Integer", lo |-> lo, hi |-> hi, choices |-> <<>>]
Real(lo, hi) == [type |-> "Real", lo |-> lo, hi |-> hi, choices |-> <<>>]
Categorical(cs) == [type |-> "Categorical", lo |-> 0, hi |-> 0, choices |-> cs]

\* None as the value of a parameter whose other values are numbers
NoneNumber == -999

\* a plain int as the value of a parameter
PlainInt(v) == [type |-> "int", lo |-> v, hi |-> v, choices |-> <<>>]

\* component_class.hyperparameter_ranges: the intrinsic ranges of a component,
\* as a sequence of <<parameter name, dimension>>
IntrinsicRanges(comp) ==
    CASE comp \in {"Decision Tree Regressor", "Decision Tree Classifier"} ->
            <<[param |-> "max_depth", dim |-> Integer(5, 6)]>>
      [] comp \in {"Extra Trees Regressor", "Extra Trees Classifier"} ->
            <<[param |-> "max_depth", dim |-> Integer(6, 7)]>>
      [] comp \in {"Random Forest Regressor", "Random Forest Classifier"} ->
            <<[param |-> "max_depth", dim |-> Integer(5, 6)]>>
      [] comp = "Logistic Regression Classifier" ->
            <<[param |-> "penalty", dim |-> Categorical(<<"l2", "none">>)]>>
      [] OTHER -> <<>>

\* the parameters a component reports when it is built without arguments
DefaultParameters(comp) ==
    CASE comp = Imputer -> [strategy |-> "mean"]
      [] comp = SelectColumns -> [columns |-> None]
      [] comp \in {RFClassifierSelectFromModel, RFRegressorSelectFromModel} ->
            [n_jobs |-> DefaultNJobs]
      [] comp \in {"Decision Tree Regressor", "Decision Tree Classifier"} ->
            [max_depth |-> 6]
      [] comp \in {"Extra Trees Regressor", "Extra Trees Classifier"} ->
            [max_depth |-> 6, n_jobs |-> DefaultNJobs]
      [] comp \in {"Random Forest Regressor", "Random Forest Classifier"} ->
            [max_depth |-> 6, n_jobs |-> DefaultNJobs]
      [] comp = "Logistic Regression Classifier" ->
            [penalty |-> "l2", n_jobs |-> DefaultNJobs]
      [] OTHER -> [n_jobs |-> DefaultNJobs]

----------------------------------------------------------------------------
(* Helpers on sequences and mappings *)

Range(s) == {s[i] : i \in DOMAIN s}

EmptyMap == <<>>

\* dict.update / item assignment: m with key k bound to v
Put(m, k, v) == [x \in (DOMAIN m) \cup {k} |-> IF x = k THEN v ELSE m[x]]

\* the keyword arguments kw laid over the defaults of a component
Override(defaults, kw) ==
    [x \in (DOMAIN defaults) \cup (DOMAIN kw) |-> IF x \in DOMAIN kw THEN kw[x] ELSE defaults[x]]

----------------------------------------------------------------------------
(* Pipelines *)

\* pipeline.name is fixed by the estimator and the extra components of the graph
PipelineName(est, extra) == <<est, extra>>

\* pipeline.estimator
EstimatorOf(pipeline) == pipeline.name[1]

\* pipeline.model_family
FamilyOf(pipeline) == ModelFamilyOf(pipeline.name[1])

\* pipeline.linearized_component_graph: the default preprocessing, then the
\* extra components, then the estimator; a stacked ensemble is its estimator
GraphOf(name) ==
    IF ModelFamilyOf(name[1]) = ENSEMBLE THEN <<name[1]>>
    ELSE <<Imputer>> \o name[2] \o <<name[1]>>

\* make_pipeline(X, y, estimator, problem_type, sampler_name, extra_components):
\* the default preprocessing, then the extra components, then the estimator,
\* every component with its default parameters
make_pipeline(est, extra) ==
    LET name == PipelineName(est, extra)
    IN [name |-> name,
        parameters |-> [c \in Range(GraphOf(name)) |-> DefaultParameters(c)],
        inputs |-> <<>>]

\* pipeline.new(parameters, random_seed): a fresh instance of the same graph;
\* a component named in `parameters` is built from those keyword arguments,
\* every other one from its defaults.  The receiver is not changed.
New(pipeline, parameters) ==
    [pipeline EXCEPT !.parameters =
        [c \in Range(GraphOf(pipeline.name)) |->
            Override(DefaultParameters(c),
                     IF c \in DOMAIN parameters THEN parameters[c] ELSE EmptyMap)]]

\* _make_stacked_ensemble_pipeline(input_pipelines, problem_type, random_seed, n_jobs)
make_stacked_ensemble_pipeline(input_pipelines, pt, nj) ==
    LET est == StackedEnsemble(pt)
    IN [name |-> PipelineName(est, <<>>),
        parameters |-> [c \in {est} |-> [n_jobs |-> nj]],
        inputs |-> input_pipelines]

\* pipeline.get_component(name) finds the component
HasComponent(pipeline, comp) == comp \in Range(GraphOf(pipeline.name))

FeatureSelector(pt) ==
    IF is_regression(pt) THEN RFRegressorSelectFromModel ELSE RFClassifierSelectFromModel

\* EvalMLAlgorithm._naive_estimators
naive_estimators(pt) == NaiveEstimators(pt)

\* EvalMLAlgorithm._create_naive_pipelines
create_naive_pipelines(pt) ==
    [i \in 1..Len(naive_estimators(pt)) |-> make_pipeline(naive_estimators(pt)[i], <<>>)]

\* EvalMLAlgorithm._create_naive_pipelines_with_feature_selection
create_naive_pipelines_with_feature_selection(pt) ==
    [i \in 1..Len(naive_estimators(pt)) |->
        make_pipeline(naive_estimators(pt)[i], <<FeatureSelector(pt)>>)]

\* a variant: the proposed parameters are passed on as they are
transform_parameters_as_proposed(pipeline, proposed_parameters, nj) ==
    [name \in Range(GraphOf(pipeline.name)) |->
        IF name \in DOMAIN proposed_parameters
        THEN proposed_parameters[name] ELSE EmptyMap]

\* EvalMLAlgorithm._transform_parameters, its return value: one entry per
\* component of the graph, n_jobs forced where the constructor accepts it
transform_parameters(pipeline, proposed_parameters, nj) ==
    [name \in Range(GraphOf(pipeline.name)) |->
        LET component_parameters ==
                IF name \in DOMAIN proposed_parameters
                THEN proposed_parameters[name] ELSE EmptyMap
        IN IF AcceptsNJobs(name)
           THEN Put(component_parameters, "n_jobs", nj)
           ELSE component_parameters]

\* EvalMLAlgorithm._transform_parameters, its effect on the argument:
\* proposed_parameters.get(name, {}) hands out the caller's inner dict, so the
\* n_jobs item assignment writes into proposed_parameters itself
transform_parameters_arg(pipeline, proposed_parameters, nj) ==
    [name \in DOMAIN proposed_parameters |->
        IF name \in Range(GraphOf(pipeline.name)) /\ AcceptsNJobs(name)
        THEN Put(proposed_parameters[name], "n_jobs", nj)
        ELSE proposed_parameters[name]]

----------------------------------------------------------------------------
(* Tuners *)

\* get_hyperparameter_ranges(component_graph, custom_hyperparameters): per
\* component of the graph its intrinsic ranges, replaced as a whole by the
\* custom ones when the component is named there
get_hyperparameter_ranges(graph, custom) ==
    [i \in 1..Len(graph) |->
        [comp |-> graph[i],
         ranges |-> IF graph[i] \in DOMAIN custom THEN custom[graph[i]]
                    ELSE IntrinsicRanges(graph[i])]]

RECURSIVE Flatten(_)
\* Tuner.__init__: the flat search space, one dimension per (component,
\* parameter) pair in the iteration order of the nested ranges
Flatten(nested) ==
    IF nested = <<>> THEN <<>>
    ELSE LET head == nested[1]
         IN [j \in 1..Len(head.ranges) |->
                [comp |-> head.comp, param |-> head.ranges[j].param,
                 dim |-> head.ranges[j].dim]]
            \o Flatten(Tail(nested))

\* SKOptTuner.__init__: a new tuner object with a fresh optimizer
NewTuner(id, pipeline_hyperparameter_ranges, random_seed) ==
    [id |-> id,
     seed |-> random_seed,
     space |-> Flatten(pipeline_hyperparameter_ranges),
     asks |-> 0,
     proposals |-> 0,
     obs |-> <<>>]

\* Optimizer.ask(): the backend's next point, one value per dimension, each
\* inside its dimension; which one is fixed by the optimizer's random state
\* and by its history of points asked and observations told
Ask(tuner) ==
    [j \in 1..Len(tuner.space) |->
        LET d == tuner.space[j].dim
            k == tuner.seed + tuner.asks + Len(tuner.obs) + j
        IN IF d.type = "Integer"
           THEN d.lo + (k % (d.hi - d.lo + 1))
           ELSE d.choices[1 + (k % Len(d.choices))]]

\* an exception of the backend: its class and str(e)
BackendError(type, message) == [type |-> type, message |-> message]
NoError == BackendError("none", "")

RECURSIVE ConvertFrom(_, _, _)
\* Tuner._convert_to_pipeline_parameters: the flat vector back into the
\* nested {component: {parameter: value}} mapping
ConvertFrom(space, flat, j) ==
    IF j > Len(flat) THEN EmptyMap
    ELSE LET rest == ConvertFrom(space, flat, j + 1)
             c == space[j].comp
             inner == IF c \in DOMAIN rest THEN rest[c] ELSE EmptyMap
         IN Put(rest, c, Put(inner, space[j].param, flat[j]))

convert_to_pipeline_parameters(tuner, flat) == ConvertFrom(tuner.space, flat, 1)

\* a variant: propose() converts no point, whatever the search space
propose_nothing(tuner) == convert_to_pipeline_parameters(tuner, <<>>)

\* SKOptTuner.propose, its return value
propose(tuner) ==
    IF Len(tuner.space) = 0
    THEN convert_to_pipeline_parameters(tuner, <<>>)
    ELSE convert_to_pipeline_parameters(tuner, Ask(tuner))

\* a variant: every call asks the backend
ProposedAsking(tuner, r) == [tuner EXCEPT !.proposals = @ + r, !.asks = @ + r]

\* SKOptTuner.propose, the tuner after r calls: each is one ask() of the
\* backend, unless the search space is empty
Proposed(tuner, r) ==
    [tuner EXCEPT !.proposals = @ + r,
                  !.asks = @ + (IF Len(tuner.space) = 0 THEN 0 ELSE r)]

----------------------------------------------------------------------------
(* The state of one EvalMLAlgorithm instance and of its driver *)

VARIABLES
    problem_type,           \* self.problem_type
    n_jobs,                 \* self.n_jobs
    text_in_ensembling,     \* self.text_in_ensembling
    custom_hyperparameters, \* self._custom_hyperparameters
    pipeline_params,        \* self._pipeline_params
    init_args,              \* the arguments the constructor was given
    batch_number,           \* self._batch_number
    pipeline_number,        \* self._pipeline_number
    best_pipeline_info,     \* self._best_pipeline_info, in insertion order
    selected_cols,          \* self._selected_cols
    top_n_pipelines,        \* self._top_n_pipelines
    tuners,                 \* self._tuners: pipeline name -> tuner
    tuner_count,            \* the number of tuner objects constructed so far
    last_call,              \* the method the driver called last
    last_args,              \* what the last add_result() call was given
    raised,                 \* the exception that call raised, or "none"
    last_batch,             \* the list the last successful next_batch() returned
    last_strategy,          \* the generation strategy that produced it
    batches_returned,       \* the number of next_batch() calls that returned
    evaluated,              \* how many pipelines of last_batch the driver has evaluated
    pipelines_returned,     \* the sum of the lengths of the lists they returned
    lowest_seen,            \* per model family, the lowest number an add_result
                            \* call that returned was given for a non-ensemble pipeline
    sk_tuner,               \* an SKOptTuner used on its own
    sk_call,                \* the last call made on it, and the number of calls
    search_call             \* a call of search(): its arguments and how far it got

config == <<problem_type, n_jobs, text_in_ensembling, custom_hyperparameters,
            pipeline_params, init_args>>
algo == <<batch_number, pipeline_number, best_pipeline_info, selected_cols,
          top_n_pipelines, tuners, tuner_count>>
driver == <<last_call, last_args, raised, last_batch, last_strategy, batches_returned,
            evaluated, pipelines_returned, lowest_seen>>
apart == <<sk_tuner, sk_call, search_call>>
vars == <<config, algo, driver, apart>>

\* self._top_n_pipelines is None / is a list
NoPipelines == [is_none |-> TRUE, pipelines |-> <<>>]
\* a variant: the pipelines are not stored
PipelinesDropped(ps) == [is_none |-> TRUE, pipelines |-> <<>>]

Pipelines(ps) == [is_none |-> FALSE, pipelines |-> ps]

NonEnsembleFamilies == {"linear_model", "random_forest", "decision_tree", "extra_trees"}

\* the score and the pipeline's model family of an add_result() call, whether
\* the family had an entry in the best-info table when it was made, and
\* whether the call handed the result to add_result() of the base class, and
\* what the base class raised on it
Args(score, family, known, forwarded, told) ==
    [score |-> score, family |-> family, known |-> known, forwarded |-> forwarded,
     told |-> told]
NoArgs == Args(NoneScore, "none", FALSE, FALSE, "none")

NotSeen == [seen |-> FALSE, val |-> 0]
Seen(v) == [seen |-> TRUE, val |-> v]

\* Python values handed to the constructor: None, a dict of
\* {component: {parameter: value}} given as component -> sequence of
\* <<parameter, value>>, and values that are not dicts; truthy is bool(value)
NoneValue == [type |-> "NoneType", truthy |-> FALSE, items |-> EmptyMap]
Dict(items) == [type |-> "dict", truthy |-> DOMAIN items # {}, items |-> items]
List(len) == [type |-> "list", truthy |-> len > 0, items |-> EmptyMap]
Str(len) == [type |-> "str", truthy |-> len > 0, items |-> EmptyMap]
IntValue(v) == [type |-> "int", truthy |-> v # 0, items |-> EmptyMap]

Item(param, value) == [param |-> param, dim |-> value]

\* the values of custom_hyperparameters the model covers
CustomInputs ==
    {NoneValue, Dict(EmptyMap),
     Dict("Random Forest Regressor" :> <<Item("n_jobs", Integer(3, 4))>>),
     Dict("Random Forest Classifier" :> <<Item("max_depth", Integer(5, 6)),
                                         Item("n_estimators", PlainInt(5))>>),
     Dict("Estimator" :> <<Item("x", PlainInt(5))>>),
     List(0), List(1), Str(0), Str(3), IntValue(0), IntValue(5)}

\* the values of pipeline_params the model covers
PipelineParamInputs ==
    {NoneValue, Dict(EmptyMap),
     Dict("Random Forest Regressor" :> <<Item("n_estimators", PlainInt(5))>>),
     Dict("Estimator" :> <<Item("n_jobs", Integer(1, 4))>>),
     Dict("Estimator" :> <<Item("x", PlainInt(5)), Item("y", Real(0, 1))>>),
     Dict("Estimator" :> <<Item("x", Categorical(<<"a", "b">>))>>)}

\* the constructor arguments of the searches the model follows
Configs ==
    {[problem_type |-> "binary", n_jobs |-> DefaultNJobs, text_in_ensembling |-> FALSE,
      custom_hyperparameters |-> NoneValue, pipeline_params |-> NoneValue],
     [problem_type |-> "regression", n_jobs |-> 2, text_in_ensembling |-> TRUE,
      custom_hyperparameters |->
          Dict("Random Forest Regressor" :> <<Item("n_jobs", Integer(3, 4))>>),
      pipeline_params |->
          Dict("Random Forest Regressor" :> <<Item("n_estimators", PlainInt(5))>>)]}

\* the constructor arguments the model covers
ConstructorArgs ==
    Configs \cup
    {[problem_type |-> "binary", n_jobs |-> DefaultNJobs, text_in_ensembling |-> FALSE,
      custom_hyperparameters |-> c, pipeline_params |-> q] :
        c \in CustomInputs, q \in PipelineParamInputs}

\* value or {}
OrEmptyDict(value) == IF value.truthy THEN value.items ELSE EmptyMap

\* the values of the inner dicts of a {component: {parameter: value}} dict
Leaves(items) == UNION {{items[c][k].dim : k \in DOMAIN items[c]} : c \in DOMAIN items}

\* isinstance(value, (Integer, Real, Categorical))
IsSpace(value) == value.type \in {"Integer", "Real", "Categorical"}

\* a variant: any value that is not a dict is refused, None apart
NotADictStrict(value) == value.type \notin {"dict", "NoneType"}

\* custom_hyperparameters and not isinstance(custom_hyperparameters, dict)
NotADict(value) == value.truthy /\ value.type # "dict"

\* a variant: the values of the custom hyperparameters are not looked at
BadCustomNever(items) == FALSE

\* the loop over self._custom_hyperparameters: some value is not a range
BadCustom(items) == \E value \in Leaves(items) : ~IsSpace(value)

\* a variant: the values of the pipeline parameters are not looked at
BadPipelineParamsNever(items) == FALSE

\* the loop over self._pipeline_params: some value is a range
BadPipelineParams(items) == \E value \in Leaves(items) : IsSpace(value)

\* the exception EvalMLAlgorithm.__init__ raises on its arguments, or "none"
InitRaises(args) ==
    IF NotADict(args.custom_hyperparameters) THEN "ValueError"
    ELSE IF BadPipelineParams(OrEmptyDict(args.pipeline_params)) THEN "ValueError"
    ELSE IF BadCustom(OrEmptyDict(args.custom_hyperparameters)) THEN "ValueError"
    ELSE "none"

\* a call on the tuner used on its own: the method, its arguments, the error
\* of the backend inside it, the exception it raised and the message of a
\* ParameterError, the last proposal returned, and the number of calls so far
TunerCall(op, parameters, score, error, exc, message, proposal, calls) ==
    [op |-> op, parameters |-> parameters, score |-> score, error |-> error,
     raised |-> exc, message |-> message, proposal |-> proposal, calls |-> calls]
NoCall == TunerCall("init", EmptyMap, NoneScore, NoError, "none", <<>>, EmptyMap, 0)

\* no tuner is used on its own
NoTuner == NewTuner(0, <<>>, RandomSeed)

\* a call of search(): the mode, max_time and patience it was given and the
\* levels of the messages the data checks will report; pc is the place the
\* call has reached, `log` the calls it has made, in order
SearchCall(mode, max_time, patience, levels) ==
    [pc |-> "called", mode |-> mode, max_time |-> max_time, patience |-> patience,
     levels |-> levels, log |-> <<>>, results |-> {}, automl |-> <<>>,
     returned |-> <<>>, raised |-> "none"]

\* search() is not called
NoSearch == [SearchCall("fast", NoneNumber, NoneNumber, {}) EXCEPT !.pc = "idle"]

\* EvalMLAlgorithm.__init__(args)
Constructed(args) ==
    /\ init_args = args
    /\ problem_type = args.problem_type
    /\ n_jobs = args.n_jobs
    /\ text_in_ensembling = args.text_in_ensembling
    /\ pipeline_params = OrEmptyDict(args.pipeline_params)
    /\ custom_hyperparameters = OrEmptyDict(args.custom_hyperparameters)
    /\ raised = InitRaises(args)
    /\ batch_number = 0
    /\ pipeline_number = 0
    /\ best_pipeline_info = <<>>
    /\ selected_cols = None
    /\ top_n_pipelines = NoPipelines
    /\ tuners = EmptyMap
    /\ tuner_count = 0
    /\ last_call = "init"
    /\ last_args = NoArgs
    /\ last_batch = <<>>
    /\ last_strategy = "none"
    /\ batches_returned = 0
    /\ pipelines_returned = 0
    /\ evaluated = 0
    /\ lowest_seen = [f \in NonEnsembleFamilies |-> NotSeen]

\* an algorithm built from any of the arguments covered
Init ==
    /\ \E args \in ConstructorArgs : Constructed(args)
    /\ sk_tuner = NoTuner
    /\ sk_call = NoCall
    /\ search_call = NoSearch

----------------------------------------------------------------------------
(* The best-info table: a dict keyed by model family *)

Families(best) == {best[i].family : i \in DOMAIN best}

IndexOf(best, family) == CHOOSE i \in DOMAIN best : best[i].family = family

\* a variant: a family without an entry counts as having scored 0
CurrentBestScoreZero(best, family) ==
    IF family \in Families(best) THEN best[IndexOf(best, family)].mean_cv_score
    ELSE Num(0)

\* self._best_pipeline_info.get(family, {}).get("mean_cv_score", np.inf)
CurrentBestScore(best, family) ==
    IF family \in Families(best) THEN best[IndexOf(best, family)].mean_cv_score
    ELSE InfScore

\* a variant: dict.setdefault, an existing key keeps its entry
UpdateBestKeepFirst(best, entry) ==
    IF entry.family \in Families(best) THEN best ELSE Append(best, entry)

\* self._best_pipeline_info.update({family: entry}): an existing key keeps
\* its place in the dict, a new key goes last
UpdateBest(best, entry) ==
    IF entry.family \in Families(best)
    THEN [best EXCEPT ![IndexOf(best, entry.family)] = entry]
    ELSE Append(best, entry)

----------------------------------------------------------------------------
(* The generation strategies of next_batch *)

\* what a strategy hands back to next_batch: the batch, and the fields of
\* the algorithm it has assigned on the way
Outcome(batch, tnrs, count, best, top, exc) ==
    [batch |-> batch, tuners |-> tnrs, tuner_count |-> count,
     best |-> best, top |-> top, raised |-> exc]

\* EvalMLAlgorithm._create_tuner: self._tuners[pipeline.name] = a new tuner
create_tuner(tnrs, count, pipeline) ==
    Put(tnrs, pipeline.name,
        NewTuner(count + 1,
                 get_hyperparameter_ranges(GraphOf(pipeline.name), custom_hyperparameters),
                 RandomSeed))

\* the estimators of _create_fast_final: the registered ones that are not naive
FastFinalEstimators(pt) ==
    SelectSeq(get_estimators(pt), LAMBDA e : e \notin Range(naive_estimators(pt)))

\* a variant: the columns of the pipelines are left unbound
FastFinalPipelinesUnbound(pt) ==
    [i \in 1..Len(FastFinalEstimators(pt)) |->
        New(make_pipeline(FastFinalEstimators(pt)[i], <<SelectColumns>>),
            [c \in {SelectColumns} |-> [columns |-> None]])]

\* the pipelines of _create_fast_final
FastFinalPipelines(pt) ==
    [i \in 1..Len(FastFinalEstimators(pt)) |->
        New(make_pipeline(FastFinalEstimators(pt)[i], <<SelectColumns>>),
            [c \in {SelectColumns} |-> [columns |-> selected_cols]])]

RECURSIVE CreateTuners(_, _, _, _)
\* the loop  for pipeline in pipelines: self._create_tuner(pipeline)
CreateTuners(pipelines, i, tnrs, count) ==
    IF i > Len(pipelines) THEN [tuners |-> tnrs, tuner_count |-> count]
    ELSE CreateTuners(pipelines, i + 1,
                      create_tuner(tnrs, count, pipelines[i]), count + 1)

\* EvalMLAlgorithm._create_fast_final
create_fast_final ==
    LET pipelines == FastFinalPipelines(problem_type)
        made == CreateTuners(pipelines, 1, tuners, tuner_count)
    IN Outcome(pipelines, made.tuners, made.tuner_count,
               best_pipeline_info, top_n_pipelines, "none")

\* a variant: the inputs are built from the default parameters
EnsembleInputsDefault(best) == [i \in 1..Len(best) |-> New(best[i].pipeline, EmptyMap)]

\* the input pipelines of _create_ensemble, one per entry of the best-info table
EnsembleInputs(best) ==
    [i \in 1..Len(best) |->
        New(best[i].pipeline,
            transform_parameters(best[i].pipeline, best[i].parameters, n_jobs))]

\* the best-info table after the loop of _create_ensemble: each stored
\* 'parameters' dict has been handed to _transform_parameters
BestAfterEnsemble(best) ==
    [i \in 1..Len(best) |->
        [best[i] EXCEPT !.parameters =
            transform_parameters_arg(best[i].pipeline, best[i].parameters, n_jobs)]]

\* a variant: the ensemble takes the n_jobs of the algorithm
EnsembleNJobsConfigured == n_jobs

\* n_jobs_ensemble = 1 if self.text_in_ensembling else self.n_jobs
EnsembleNJobs == IF text_in_ensembling THEN SerialJobs ELSE n_jobs

\* EvalMLAlgorithm._create_ensemble; input_pipelines[0] raises IndexError on
\* an empty list
create_ensemble ==
    LET input_pipelines == EnsembleInputs(best_pipeline_info)
        best == BestAfterEnsemble(best_pipeline_info)
    IN IF Len(input_pipelines) = 0
       THEN Outcome(<<>>, tuners, tuner_count, best, top_n_pipelines, "IndexError")
       ELSE Outcome(<<make_stacked_ensemble_pipeline(input_pipelines, problem_type,
                                                    EnsembleNJobs)>>,
                    tuners, tuner_count, best, top_n_pipelines, "none")

RECURSIVE InsertByScore(_, _)
\* one step of the stable sort: e goes after every element that is not worse
InsertByScore(sorted, e) ==
    IF sorted = <<>> THEN <<e>>
    ELSE IF LessThan(e.mean_cv_score, sorted[1].mean_cv_score)
         THEN <<e>> \o sorted
         ELSE <<sorted[1]>> \o InsertByScore(Tail(sorted), e)

\* a variant: the estimators stay in the order of the table
Unsorted(best, i) == SubSeq(best, 1, i)

RECURSIVE SortByScore(_, _)
\* estimators.sort(key=lambda pipeline: pipeline[1]): stable, ascending
SortByScore(best, i) ==
    IF i = 0 THEN <<>> ELSE InsertByScore(SortByScore(best, i - 1), best[i])

\* a variant: every pipeline of the ranking is taken
FirstNAll(s, n) == s

\* estimators[:n]
FirstN(s, n) == SubSeq(s, 1, IF Len(s) < n THEN Len(s) ELSE n)

\* the skeleton pipelines of _create_long_top_n(n)
TopPipelines(best, n) ==
    LET top == FirstN(SortByScore(best, Len(best)), n)
    IN [i \in 1..Len(top) |-> make_pipeline(EstimatorOf(top[i].pipeline), <<SelectColumns>>)]

\* a variant: a tuner is created whether or not the name has one
NeedsTunerAlways(tnrs, name) == TRUE

\* if pipeline.name not in self._tuners
NeedsTuner(tnrs, name) == name \notin DOMAIN tnrs

\* a variant: every position of the loop takes the first pipeline
PipelineAtFirst(pipelines, k) == pipelines[1]

\* the pipeline of iteration k of the loops
\*   for _ in range(rounds): for pipeline in pipelines: ...
\* and the number of rounds completed before it
PipelineAt(pipelines, k) == pipelines[((k - 1) % Len(pipelines)) + 1]
RoundsBefore(pipelines, k) == (k - 1) \div Len(pipelines)

\* the body of those loops: a proposal of the pipeline's tuner, n_jobs forced,
\* the selected columns bound, a new pipeline instance
Proposal(pipeline, tuner) ==
    New(pipeline,
        Put(transform_parameters(pipeline, propose(tuner), n_jobs),
            SelectColumns, [columns |-> selected_cols]))

\* next_batch as the loops leave it, run over the tuner table tnrs: iteration
\* k finds the tuner of its pipeline advanced once by every round before
LoopBatch(pipelines, rounds, tnrs) ==
    [k \in 1..(rounds * Len(pipelines)) |->
        Proposal(PipelineAt(pipelines, k),
                 Proposed(tnrs[PipelineAt(pipelines, k).name],
                          RoundsBefore(pipelines, k)))]

\* self._tuners as the loops leave it: every tuner with propose() called
\* once for each pipeline of its name that comes before position `upto` of
\* round `rounds`
LoopTuners(pipelines, rounds, upto, tnrs) ==
    [name \in DOMAIN tnrs |->
        Proposed(tnrs[name],
                 rounds * Cardinality({i \in DOMAIN pipelines : pipelines[i].name = name})
                 + Cardinality({i \in 1..upto : pipelines[i].name = name}))]

RECURSIVE CreateMissing(_, _, _, _)
\* the tuners the first round of _create_long_top_n creates, in its order
CreateMissing(pipelines, i, tnrs, count) ==
    IF i > Len(pipelines) THEN [tuners |-> tnrs, tuner_count |-> count]
    ELSE IF NeedsTuner(tnrs, pipelines[i].name)
         THEN CreateMissing(pipelines, i + 1,
                            create_tuner(tnrs, count, pipelines[i]), count + 1)
         ELSE CreateMissing(pipelines, i + 1, tnrs, count)

\* the loops of _create_long_top_n over the skeleton pipelines
LongTopNLoops(pipelines, made) ==
    Outcome(LoopBatch(pipelines, FirstRounds, made.tuners),
            LoopTuners(pipelines, FirstRounds, 0, made.tuners),
            made.tuner_count, best_pipeline_info, Pipelines(pipelines), "none")

\* EvalMLAlgorithm._create_long_top_n(n)
LongTopNOf(pipelines) ==
    LongTopNLoops(pipelines, CreateMissing(pipelines, 1, tuners, tuner_count))

create_long_top_n(n) == LongTopNOf(TopPipelines(best_pipeline_info, n))

\* the positions of the pipelines whose name has no tuner
Missing(pipelines) == {i \in DOMAIN pipelines : pipelines[i].name \notin DOMAIN tuners}

First(positions) == CHOOSE i \in positions : \A j \in positions : i <= j

\* a variant: every tuning batch selects the top pipelines again
create_tuning_batch_reselecting == create_long_top_n(TopN)

\* the last branch of next_batch; iterating over None raises TypeError, and
\* self._tuners[pipeline.name] raises KeyError in the first round at the
\* first pipeline without a tuner, the tuners before it having proposed once
create_tuning_batch ==
    IF top_n_pipelines.is_none
    THEN Outcome(<<>>, tuners, tuner_count, best_pipeline_info, top_n_pipelines,
                 "TypeError")
    ELSE IF Missing(top_n_pipelines.pipelines) # {}
    THEN Outcome(<<>>,
                 LoopTuners(top_n_pipelines.pipelines, 0,
                            First(Missing(top_n_pipelines.pipelines)) - 1, tuners),
                 tuner_count, best_pipeline_info, top_n_pipelines, "KeyError")
    ELSE Outcome(LoopBatch(top_n_pipelines.pipelines, LaterRounds, tuners),
                 LoopTuners(top_n_pipelines.pipelines, LaterRounds, 0, tuners),
                 tuner_count, best_pipeline_info, top_n_pipelines, "none")

\* a variant: after batch 4 every batch is a tuning batch
StrategyNoEnsembles(bn) ==
    CASE bn = 0 -> "naive"
      [] bn = 1 -> "naive_feature_selection"
      [] bn = 2 -> "fast_final"
      [] bn = 3 -> "ensemble"
      [] bn = 4 -> "long_top_n"
      [] OTHER -> "tuning"

\* the if/elif chain of next_batch
Strategy(bn) ==
    CASE bn = 0 -> "naive"
      [] bn = 1 -> "naive_feature_selection"
      [] bn = 2 -> "fast_final"
      [] bn = 3 -> "ensemble"
      [] bn = 4 -> "long_top_n"
      [] bn > 4 /\ bn % 2 # 0 -> "ensemble"
      [] OTHER -> "tuning"

Unchanged(batch) ==
    Outcome(batch, tuners, tuner_count, best_pipeline_info, top_n_pipelines, "none")

\* the batch of the strategy chosen by next_batch
Generate(strategy) ==
    CASE strategy = "naive" -> Unchanged(create_naive_pipelines(problem_type))
      [] strategy = "naive_feature_selection" ->
            Unchanged(create_naive_pipelines_with_feature_selection(problem_type))
      [] strategy = "fast_final" -> create_fast_final
      [] strategy = "ensemble" -> create_ensemble
      [] strategy = "long_top_n" -> create_long_top_n(TopN)
      [] OTHER -> create_tuning_batch

\* a variant: the counter counts batches
PipelineNumberAfterOne(pn, batch) == pn + 1

\* self._pipeline_number += len(next_batch)
PipelineNumberAfter(pn, batch) == pn + Len(batch)

\* a variant: the counters move whether or not the strategy raised
CompletesAlways(out) == TRUE

\* the statements of next_batch after the strategy are reached
Completes(out) == out.raised = "none"

\* the end of next_batch: the counters move only when no exception left the
\* strategy; what the strategy assigned on the way stays assigned
Return(strategy, out) ==
       /\ last_call' = "next_batch"
       /\ last_args' = NoArgs
       /\ raised' = out.raised
       /\ tuners' = out.tuners
       /\ tuner_count' = out.tuner_count
       /\ best_pipeline_info' = out.best
       /\ top_n_pipelines' = out.top
       /\ IF Completes(out)
          THEN /\ pipeline_number' = PipelineNumberAfter(pipeline_number, out.batch)
               /\ batch_number' = batch_number + 1
               /\ last_batch' = out.batch
               /\ last_strategy' = strategy
               /\ batches_returned' = batches_returned + 1
               /\ pipelines_returned' = pipelines_returned + Len(out.batch)
          ELSE UNCHANGED <<pipeline_number, batch_number, last_batch, last_strategy,
                           batches_returned, pipelines_returned>>
       /\ UNCHANGED <<config, selected_cols, lowest_seen, apart>>

\* EvalMLAlgorithm.next_batch
NextBatch == Return(Strategy(batch_number), Generate(Strategy(batch_number)))

----------------------------------------------------------------------------
(* Recording results *)

\* a variant: only None is null
IsNullNone(score) == score.kind = "none"

\* pd.isnull(score)
IsNull(score) == score.kind \in {"none", "nan"}

\* Tuner._convert_to_flat_parameters: the values of the parameters in the
\* order of the flat search space
convert_to_flat_parameters(tuner, pipeline_parameters) ==
    [j \in 1..Len(tuner.space) |->
        pipeline_parameters[tuner.space[j].comp][tuner.space[j].param]]

\* the flat search space names only parameters the mapping holds
HasAllFields(tuner, pipeline_parameters) ==
    \A j \in 1..Len(tuner.space) :
        /\ tuner.space[j].comp \in DOMAIN pipeline_parameters
        /\ tuner.space[j].param \in DOMAIN pipeline_parameters[tuner.space[j].comp]

\* a value lies in a dimension
InDimension(v, d) ==
    IF d.type = "Integer" THEN d.lo <= v /\ v <= d.hi ELSE v \in Range(d.choices)

\* what the backend keeps of an observation told: the point, and whether its
\* score was a number or an infinity
Observation(flat, score) == [x |-> flat, y |-> score.kind]

\* the comparison of an integer bound with None
IntNoneMessage == "'<=' not supported between instances of 'int' and 'NoneType'"

\* the point is not in the space
NotWithinMessage == "Point is not within the bounds of the space"

\* the first coordinate of the point that is not in its dimension, 0 if none
FirstOutside(tuner, flat) ==
    IF \A j \in 1..Len(flat) : InDimension(flat[j], tuner.space[j].dim) THEN 0
    ELSE CHOOSE j \in 1..Len(flat) :
            /\ ~InDimension(flat[j], tuner.space[j].dim)
            /\ \A i \in 1..(j - 1) : InDimension(flat[i], tuner.space[i].dim)

\* Optimizer.tell(x, y): the error the backend raises on the observation, or
\* NoError.  The point is compared with the space coordinate by coordinate:
\* None against the bounds of an integer dimension is a TypeError, any other
\* coordinate outside its dimension makes tell() raise a ValueError
TellError(tuner, flat) ==
    LET j == FirstOutside(tuner, flat)
    IN IF j = 0 THEN NoError
       ELSE IF tuner.space[j].dim.type = "Integer" /\ flat[j] = NoneNumber
       THEN BackendError("TypeError", IntNoneMessage)
       ELSE BackendError("ValueError", NotWithinMessage)

\* a variant: the message is formatted from the error of the backend alone
ParameterErrorMessageBare(pipeline_parameters, score, e) ==
    <<[name |-> "error", value |-> e.message]>>

\* "Invalid parameters specified to SKOptTuner.add: parameters {} error {}"
\*     .format(pipeline_parameters, str(e))
\* the values the message of the ParameterError is formatted from, each under
\* the name the format string gives it
ParameterErrorMessage(pipeline_parameters, score, e) ==
    <<[name |-> "parameters", value |-> pipeline_parameters],
      [name |-> "error", value |-> e.message]>>

\* a variant: every error of the backend becomes a ParameterError
RaisedForAlways(e) == "ParameterError"

\* the except clause of SKOptTuner.add: what is raised for the error e of the backend
RaisedFor(e) == IF e.message = IntNoneMessage THEN "ParameterError" ELSE e.type

\* SKOptTuner.add: the tuner afterwards and the exception raised, if any
tuner_add(tuner, pipeline_parameters, score) ==
    IF IsNull(score) THEN [tuner |-> tuner, raised |-> "none"]
    ELSE IF ~HasAllFields(tuner, pipeline_parameters)
    THEN [tuner |-> tuner, raised |-> "TypeError"]
    ELSE LET flat == convert_to_flat_parameters(tuner, pipeline_parameters)
             err == TellError(tuner, flat)
         IN IF err = NoError
            THEN [tuner |-> [tuner EXCEPT !.obs = Append(@, Observation(flat, score))],
                  raised |-> "none"]
            ELSE [tuner |-> tuner, raised |-> RaisedFor(err)]

\* a variant: the base class keeps the tuner it has told and no other
base_add_result_alone(tnrs, score, pipeline) ==
    IF pipeline.name \notin DOMAIN tnrs
    THEN [tuners |-> tnrs, raised |-> "PipelineNotFoundError"]
    ELSE LET r == tuner_add(tnrs[pipeline.name], pipeline.parameters, score)
         IN [tuners |-> (pipeline.name :> r.tuner), raised |-> r.raised]

\* AutoMLAlgorithm.add_result of the base class: the result goes to the
\* tuner of the pipeline's name
base_add_result(tnrs, score, pipeline) ==
    IF pipeline.name \notin DOMAIN tnrs
    THEN [tuners |-> tnrs, raised |-> "PipelineNotFoundError"]
    ELSE LET r == tuner_add(tnrs[pipeline.name], pipeline.parameters, score)
         IN [tuners |-> Put(tnrs, pipeline.name, r.tuner), raised |-> r.raised]

\* a variant: every result goes to the base class
ForwardsAlways(bn, pipeline) == TRUE

\* the first condition of add_result: the result goes to the base class
Forwards(bn, pipeline) == FamilyOf(pipeline) # ENSEMBLE /\ bn >= ForwardFrom

\* a variant: the columns are captured whether or not some are stored
CapturesAlways(bn, cols) == bn = CaptureAt

\* a variant: the columns are never captured
CapturesNever(bn, cols) == FALSE

\* the second condition of add_result: the selected columns are captured
Captures(bn, cols) == bn = CaptureAt /\ cols = None

\* a variant: <= in place of <
IsBetterOrEqual(score, current_best_score, family) ==
    /\ score.kind # "none"
    /\ ~LessThan(current_best_score, score)
    /\ score.kind # "nan" /\ current_best_score.kind # "nan"
    /\ family # ENSEMBLE

\* a variant: the model family is not looked at
IsBetterAnyFamily(score, current_best_score, family) ==
    /\ score.kind # "none"
    /\ LessThan(score, current_best_score)

\* the third condition of add_result: the result becomes its family's best
IsBetter(score, current_best_score, family) ==
    /\ score.kind # "none"
    /\ LessThan(score, current_best_score)
    /\ family # ENSEMBLE

\* the entry add_result writes
BestEntry(score, pipeline, id) ==
    [family |-> FamilyOf(pipeline),
     mean_cv_score |-> score,
     pipeline |-> pipeline,
     parameters |-> pipeline.parameters,
     id |-> id]

\* the history of the numbers passed by the calls that returned
SeenAfter(seen, score, pipeline) ==
    IF FamilyOf(pipeline) \in NonEnsembleFamilies /\ score.kind = "num"
       /\ (~seen[FamilyOf(pipeline)].seen \/ score.val < seen[FamilyOf(pipeline)].val)
    THEN [seen EXCEPT ![FamilyOf(pipeline)] = Seen(score.val)]
    ELSE seen

\* a variant: the table is updated only once results are forwarded
UpdatesFromThree(bn, exc, better) == bn >= ForwardFrom /\ exc = "none" /\ better

\* a variant: the table is updated before anything can raise
UpdatesAnyway(bn, exc, better) == better

\* the update of the best-info table is reached, which it is at every
\* batch_number unless a statement before it raised, and its condition holds
Updates(bn, exc, better) == exc = "none" /\ better

\* a variant: add_result catches what the base class raises
RaisesCaught(told, captures, found) == IF captures /\ ~found THEN "ValueError" ELSE "none"

\* what add_result raises: what the base class raised on the result, else
\* the ValueError of get_component for a pipeline without the feature selector
Raises(told, captures, found) ==
    IF told # "none" THEN told
    ELSE IF captures /\ ~found THEN "ValueError"
    ELSE "none"

\* EvalMLAlgorithm.add_result(score_to_minimize, pipeline, trained_pipeline_results);
\* id is trained_pipeline_results["id"], which the driver numbers by arrival;
\* names is what the pipeline's feature selector reports through get_names()
AddResult(score, pipeline, id, names) ==
    LET forwarded == IF Forwards(batch_number, pipeline)
                     THEN base_add_result(tuners, score, pipeline)
                     ELSE [tuners |-> tuners, raised |-> "none"]
        captures == Captures(batch_number, selected_cols)
        found == HasComponent(pipeline, FeatureSelector(problem_type))
        exc == Raises(forwarded.raised, captures, found)
        current_best_score == CurrentBestScore(best_pipeline_info, FamilyOf(pipeline))
    IN /\ last_call' = "add_result"
       /\ last_args' = Args(score, FamilyOf(pipeline),
                            FamilyOf(pipeline) \in Families(best_pipeline_info),
                            Forwards(batch_number, pipeline), forwarded.raised)
       /\ raised' = exc
       /\ tuners' = forwarded.tuners
       /\ selected_cols' = IF forwarded.raised = "none" /\ captures /\ found
                           THEN names ELSE selected_cols
       /\ best_pipeline_info' =
             IF Updates(batch_number, exc,
                        IsBetter(score, current_best_score, FamilyOf(pipeline)))
             THEN UpdateBest(best_pipeline_info, BestEntry(score, pipeline, id))
             ELSE best_pipeline_info
       /\ lowest_seen' = IF exc = "none" THEN SeenAfter(lowest_seen, score, pipeline)
                         ELSE lowest_seen
       /\ UNCHANGED <<config, apart, batch_number, pipeline_number, top_n_pipelines,
                      tuner_count, last_batch, last_strategy, batches_returned,
                      pipelines_returned>>

----------------------------------------------------------------------------
(* The driver *)

\* trained_pipeline_results["id"]: the driver numbers the trained results by
\* batch and position
ResultId(bn, i) == [batch |-> bn, index |-> i]

\* what get_names() of the feature selector of a fitted pipeline reports
SelectedNames(pipeline) ==
    IF ModelFamilyOf(EstimatorOf(pipeline)) = "linear_model" THEN "colsA" ELSE "colsB"

\* results that do not come from the last batch: an ensemble, and a naive
\* pipeline whose evaluation finished late
ProbePipelines ==
    {make_stacked_ensemble_pipeline(create_naive_pipelines(problem_type),
                                    problem_type, EnsembleNJobs),
     create_naive_pipelines(problem_type)[1]}

\* the driver runs a search on the algorithms built from the arguments Configs
Searching == init_args \in Configs

\* how many pipelines of the last batch the driver evaluates at most
ToEvaluate == IF Len(last_batch) < MaxEvaluated THEN Len(last_batch) ELSE MaxEvaluated

\* the driver calls next_batch(); after a batch was returned it starts
\* evaluating that batch
CallNextBatch ==
    /\ Searching
    /\ NextBatch
    /\ evaluated' = IF raised' = "none" THEN 0 ELSE evaluated

\* the driver has evaluated the next pipeline of the last batch and records
\* its score, one of `scores`
AddNext(scores) ==
    /\ Searching
    /\ evaluated < ToEvaluate
    /\ evaluated' = evaluated + 1
    /\ \E score \in scores :
          AddResult(score, last_batch[evaluated + 1],
                    ResultId(batch_number, evaluated + 1),
                    SelectedNames(last_batch[evaluated + 1]))

(* A short search: the pipelines of a batch are evaluated in order, any number
   of them, with any outcome; results of other pipelines arrive in between *)

DoNextBatch == batch_number < FastBatches /\ CallNextBatch

DoAddResult == AddNext(ScoreInputs)

\* before the first result of the last batch the driver records the score of
\* a pipeline that is not of that batch
DoAddOther ==
    /\ Searching
    /\ last_call # "add_result"
    /\ UNCHANGED evaluated
    /\ \E score \in ScoreInputs, pipeline \in ProbePipelines :
          AddResult(score, pipeline, ResultId(batch_number, 0), SelectedNames(pipeline))

Next == DoNextBatch \/ DoAddResult \/ DoAddOther

Spec == Init /\ [][Next]_vars

(* A long search with the sequential engine: every evaluation yields a number,
   and the driver asks for the next batch after the first pipeline of a batch
   or after all the pipelines it evaluates *)

DoNextBatchLong ==
    /\ batch_number < MaxBatch
    /\ evaluated = ToEvaluate \/ evaluated = 1
    /\ CallNextBatch

DoAddNumeric == batch_number < MaxBatch /\ AddNext(NumericScores)

NextLong == DoNextBatchLong \/ DoAddNumeric

SpecLong == Init /\ [][NextLong]_vars

(* A long search with a parallel engine: the driver asks for the next batch
   after all the pipelines it evaluates, and right after batch 4 was returned,
   the top pipelines chosen, the result of a pipeline of batch 2 may come in
   late, with the lowest score; so may the result of the first pipeline of
   batch 2 run with max_depth=None *)

DoNextBatchLate ==
    /\ batch_number < MaxBatch
    /\ evaluated = ToEvaluate
    /\ CallNextBatch

DoAddLate ==
    /\ Searching
    /\ batch_number = FastBatches + 1
    /\ last_call = "next_batch"
    /\ UNCHANGED evaluated
    /\ \E pipeline \in Range(FastFinalPipelines(problem_type))
                        \cup {New(FastFinalPipelines(problem_type)[1],
                                  FastFinalEstimators(problem_type)[1]
                                      :> [max_depth |-> NoneNumber])} :
          AddResult(Num(0), pipeline, ResultId(batch_number, 0), SelectedNames(pipeline))

NextLate == DoNextBatchLate \/ DoAddNumeric \/ DoAddLate

SpecLate == Init /\ [][NextLate]_vars

(* A tuner used on its own: any sequence of propose() and add() calls, add()
   with the last proposal or with parameters written by hand, and any score *)

Component == "My Component"

\* the search spaces covered: an integer and a categorical dimension, an
\* integer dimension alone
TunerRanges ==
    {<<[comp |-> Component,
        ranges |-> <<Item("param a", Integer(0, 10)),
                     Item("param b", Categorical(<<"a", "b", "c">>))>>]>>,
     <<[comp |-> Component, ranges |-> <<Item("param a", Integer(3, 4))>>]>>}

\* parameters written by hand: inside the dimensions, a number outside the
\* integer dimension, None for it, a value outside the categorical
\* dimension, a parameter missing
HandParameters ==
    {Component :> ("param a" :> 3 @@ "param b" :> "b"),
     Component :> ("param a" :> 11 @@ "param b" :> "b"),
     Component :> ("param a" :> NoneNumber @@ "param b" :> "b"),
     Component :> ("param a" :> 3 @@ "param b" :> "d"),
     Component :> ("param b" :> "b")}

\* SKOptTuner(pipeline_hyperparameter_ranges)
InitTuner ==
    /\ \E args \in Configs : Constructed(args)
    /\ \E ranges \in TunerRanges : sk_tuner = NewTuner(0, ranges, RandomSeed)
    /\ sk_call = NoCall
    /\ search_call = NoSearch

\* tuner.propose()
TunerPropose ==
    /\ sk_call.calls < MaxCalls
    /\ sk_tuner' = Proposed(sk_tuner, 1)
    /\ sk_call' = TunerCall("propose", EmptyMap, NoneScore, NoError, "none", <<>>,
                               propose(sk_tuner), sk_call.calls + 1)
    /\ UNCHANGED <<config, algo, driver, search_call>>

\* the error of the backend inside tuner.add(parameters, score)
ErrorInAdd(parameters, score) ==
    IF IsNull(score) \/ ~HasAllFields(sk_tuner, parameters) THEN NoError
    ELSE TellError(sk_tuner, convert_to_flat_parameters(sk_tuner, parameters))

\* tuner.add(parameters, score)
TunerAdd(parameters, score) ==
    /\ sk_call.calls < MaxCalls
    /\ sk_tuner' = tuner_add(sk_tuner, parameters, score).tuner
    /\ sk_call' = TunerCall("add", parameters, score, ErrorInAdd(parameters, score),
                               tuner_add(sk_tuner, parameters, score).raised,
                               IF tuner_add(sk_tuner, parameters, score).raised
                                      = "ParameterError"
                               THEN ParameterErrorMessage(parameters, score,
                                                          ErrorInAdd(parameters, score))
                               ELSE <<>>,
                               sk_call.proposal, sk_call.calls + 1)
    /\ UNCHANGED <<config, algo, driver, search_call>>

\* add() with the parameters the last propose() returned
TunerAddProposal ==
    /\ sk_call.op = "propose"
    /\ \E score \in ScoreInputs : TunerAdd(sk_call.proposal, score)

\* add() with parameters written by hand
TunerAddOther == \E parameters \in HandParameters, score \in ScoreInputs : TunerAdd(parameters, score)

NextTuner == TunerPropose \/ TunerAddProposal \/ TunerAddOther

SpecTuner == InitTuner /\ [][NextTuner]_vars

(* search(): the data checks, then an AutoMLSearch over the default algorithm *)

\* a variant: the batch budget of mode "long", whatever the mode
max_batches_long(mode, max_time) == IF max_time # NoneNumber THEN TimedBatches ELSE LongBatches

\* the batch budget search() gives the AutoMLSearch it builds
max_batches(mode, max_time) ==
    IF mode = "fast" THEN FastBatches
    ELSE IF max_time # NoneNumber THEN TimedBatches ELSE LongBatches

\* a variant: the search is run whatever the data checks report
HasErrorsNever(levels) == FALSE

\* the data checks have reported an error
HasErrors(levels) == "error" \in levels

\* the calls covered: every mode, with and without max_time and patience,
\* data checks that report nothing, warnings, errors, or both
InitSearch ==
    /\ \E args \in Configs : Constructed(args)
    /\ sk_tuner = NoTuner
    /\ sk_call = NoCall
    /\ \E mode \in {"fast", "long", "everything"}, max_time \in {NoneNumber, 42},
          patience \in {NoneNumber, 3}, levels \in SUBSET {"warning", "error"} :
            search_call = SearchCall(mode, max_time, patience, levels)

\* the step of search() from pc to `to`, with the fields in `changes` set
SearchStep(pc, to, changes) ==
    /\ search_call.pc = pc
    /\ search_call' = changes @@ [pc |-> to] @@ search_call
    /\ UNCHANGED <<config, algo, driver, sk_tuner, sk_call>>

\* a mode other than "fast" and "long" is rejected
SearchCheckMode ==
    IF search_call.mode \in {"fast", "long"}
    THEN SearchStep("called", "checked", <<>>)
    ELSE SearchStep("called", "done", [raised |-> "ValueError"])

\* data_checks.validate(X_train, y=y_train)
SearchValidate ==
    SearchStep("checked", "validated",
               [log |-> Append(search_call.log, "validate"),
                results |-> search_call.levels])

\* an error among the results: search() returns None and the results
SearchReturnNone ==
    /\ HasErrors(search_call.results)
    /\ SearchStep("validated", "done",
                  [returned |-> <<[automl |-> <<>>, results |-> search_call.results]>>])

\* automl = AutoMLSearch(...) over the default algorithm
SearchBuild ==
    /\ ~HasErrors(search_call.results)
    /\ SearchStep("validated", "built",
                  [log |-> Append(search_call.log, "AutoMLSearch"),
                   automl |-> <<[max_batches |-> max_batches(search_call.mode, search_call.max_time),
                                 max_time |-> search_call.max_time,
                                 patience |-> search_call.patience,
                                 automl_algorithm |-> "DefaultAlgorithm"]>>])

\* automl.search()
SearchRun == SearchStep("built", "ran", [log |-> Append(search_call.log, "search")])

\* return automl, data_check_results
SearchReturn ==
    SearchStep("ran", "done",
               [returned |-> <<[automl |-> search_call.automl, results |-> search_call.results]>>])

NextSearch ==
    \/ SearchCheckMode
    \/ SearchValidate
    \/ SearchReturnNone
    \/ SearchBuild
    \/ SearchRun
    \/ SearchReturn

SpecSearch == InitSearch /\ [][NextSearch]_vars

TypeOK ==
    /\ batch_number \in 0..MaxBatch
    /\ pipeline_number \in Nat
    /\ selected_cols \in {None} \cup ColumnSets
    /\ raised \in {"none", "IndexError", "KeyError", "TypeError", "ValueError",
                   "PipelineNotFoundError", "ParameterError"}

----------------------------------------------------------------------------
(* Properties *)

\* the entry of a model family in a best-info table: a set of at most one entry
EntryOf(best, family) == {best[i] : i \in {j \in DOMAIN best : best[j].family = family}}

AddResultReturned == last_call = "add_result" /\ raised = "none"

\* C1: after n next_batch() calls that returned, however many add_result()
\* calls came in between, batch_number is n and pipeline_number is the sum of
\* the lengths of the n batches returned
C1_Counters ==
    /\ batch_number = batches_returned
    /\ pipeline_number = pipelines_returned

\* C1 witness: five batches returned, the fifth one the long batch of batch 4
C1_Witness ==
    /\ batches_returned = 5
    /\ last_strategy = "long_top_n"
    /\ pipeline_number = 7 + FirstRounds * TopN

\* the mean_cv_score recorded for every family is the lowest number passed
\* for a non-ensemble pipeline of the family by a call that returned
RecordsLowest ==
    \A i \in DOMAIN best_pipeline_info :
        /\ best_pipeline_info[i].family \in NonEnsembleFamilies
        /\ lowest_seen[best_pipeline_info[i].family].seen
        /\ best_pipeline_info[i].mean_cv_score =
               Num(lowest_seen[best_pipeline_info[i].family].val)

\* an add_result() call has rewritten no entry, unless its score is strictly
\* lower than the score the entry held
RewritesOnlyLower ==
    last_call' = "add_result" =>
        \A f \in NonEnsembleFamilies \cup {ENSEMBLE} :
            EntryOf(best_pipeline_info', f) # EntryOf(best_pipeline_info, f) =>
                /\ f = last_args'.family
                /\ LessThan(last_args'.score, CurrentBestScore(best_pipeline_info, f))

\* C2: after any add_result() calls every family of the best-info table
\* records the lowest score passed for a non-ensemble pipeline of the family,
\* and a call rewrites an entry only with a strictly lower score
C2_LowestScore == [][RecordsLowest' /\ RewritesOnlyLower]_vars

\* C2 witness: a family's entry was rewritten by a second, lower score
C2_Witness ==
    /\ AddResultReturned
    /\ last_args.known
    /\ last_args.score = Num(0)
    /\ \E i \in DOMAIN best_pipeline_info :
          /\ best_pipeline_info[i].family = last_args.family
          /\ best_pipeline_info[i].mean_cv_score = Num(0)
          /\ best_pipeline_info[i].id.batch = batch_number
          /\ batch_number = 2

\* a score that is a number (or +inf) and not strictly lower than the best one
NotLower(score, current) == score.kind \in {"num", "inf"} /\ ~LessThan(score, current)

\* C3: add_result() with a score higher than or equal to the current best
\* score of the pipeline's family leaves the entry of that family as it was
C3_WorseScoreKeepsEntry ==
    [][(last_call' = "add_result" /\ last_args'.known
        /\ NotLower(last_args'.score,
                    CurrentBestScore(best_pipeline_info, last_args'.family)))
       => EntryOf(best_pipeline_info', last_args'.family)
            = EntryOf(best_pipeline_info, last_args'.family)]_vars

\* C3 witness: a call that returned was given 1 for a family whose best is 0
C3_Witness ==
    /\ AddResultReturned
    /\ last_args.known
    /\ last_args.score = Num(1)
    /\ CurrentBestScore(best_pipeline_info, last_args.family) = Num(0)

\* C4: the best-info table never has an entry for the ensemble family
C4_NoEnsembleEntry == ENSEMBLE \notin Families(best_pipeline_info)

\* C4 witness: add_result() was given the lowest score for an ensemble
\* pipeline and returned
C4_Witness ==
    /\ AddResultReturned
    /\ last_args.family = ENSEMBLE
    /\ last_args.score = Num(0)
    /\ batch_number = 1

\* C5 as stated: add_result() for a family without an entry always creates
\* the entry, whatever the score
C5_Original ==
    (last_call = "add_result" /\ ~last_args.known) =>
        last_args.family \in Families(best_pipeline_info)

\* C5 as amended: add_result() for a non-ensemble pipeline whose family has
\* no entry creates the entry with the score passed whenever the call returns
\* and the score is a number below +inf (not None, not nan, not +inf)
C5_NewFamilyRecorded ==
    (AddResultReturned /\ ~last_args.known /\ last_args.family # ENSEMBLE
     /\ last_args.score.kind = "num") =>
        /\ last_args.family \in Families(best_pipeline_info)
        /\ CurrentBestScore(best_pipeline_info, last_args.family) = last_args.score

\* C5 witness: the first result of a family carried the highest number
C5_Witness ==
    /\ AddResultReturned
    /\ ~last_args.known
    /\ last_args.score = Num(MaxScore)
    /\ last_args.family \in Families(best_pipeline_info)

\* C6 as stated: no next_batch() call changes an entry of the best-info
\* table, the stored 'parameters' mapping included
C6_NextBatchKeepsBestInfo ==
    [][last_call' = "next_batch" => best_pipeline_info' = best_pipeline_info]_vars

NextBatchReturned == last_call = "next_batch" /\ raised = "none"

\* the strategy the specification gives batch bn
ExpectedStrategy(bn) ==
    IF bn = 0 THEN "naive"
    ELSE IF bn = 1 THEN "naive_feature_selection"
    ELSE IF bn = 2 THEN "fast_final"
    ELSE IF bn = 3 THEN "ensemble"
    ELSE IF bn = 4 THEN "long_top_n"
    ELSE IF bn % 2 = 1 THEN "ensemble" ELSE "tuning"

\* what tells the batch of one strategy from the batches of the others
BatchOf(strategy, batch, top) ==
    CASE strategy = "naive" ->
            \A i \in DOMAIN batch : batch[i].name[2] = <<>>
                                    /\ batch[i].name[1] \in Range(NaiveEstimators(problem_type))
      [] strategy = "naive_feature_selection" ->
            \A i \in DOMAIN batch : batch[i].name[2] = <<FeatureSelector(problem_type)>>
      [] strategy = "fast_final" ->
            \A i \in DOMAIN batch :
                /\ batch[i].name[2] = <<SelectColumns>>
                /\ batch[i].name[1] \notin Range(NaiveEstimators(problem_type))
      [] strategy = "ensemble" -> Len(batch) = 1 /\ FamilyOf(batch[1]) = ENSEMBLE
      [] strategy = "long_top_n" ->
            /\ Len(batch) = FirstRounds * Len(top.pipelines)
            /\ \A i \in DOMAIN batch : batch[i].name[2] = <<SelectColumns>>
      [] OTHER ->
            /\ Len(batch) = LaterRounds * Len(top.pipelines)
            /\ \A i \in DOMAIN batch : batch[i].name[2] = <<SelectColumns>>

\* C7: the batch number alone picks the strategy of a next_batch() call:
\* naive, naive with feature selection, the remaining estimators, ensemble,
\* top-3 tuning, then ensemble on odd and tuning on even batch numbers; and
\* from batch 4 on the call never fails, so the alternation never ends
C7_StrategyByBatchNumber ==
    /\ batch_number >= 1 =>
            /\ last_strategy = ExpectedStrategy(batch_number - 1)
            /\ Len(last_batch) > 0
            /\ BatchOf(ExpectedStrategy(batch_number - 1), last_batch, top_n_pipelines)
    /\ (last_call = "next_batch" /\ batch_number >= 4) => raised = "none"

\* C7 witness: batches 5 and 6 were an ensemble and a tuning batch
C7_Witness ==
    /\ batch_number = 7
    /\ last_strategy = "tuning"
    /\ Len(last_batch) = LaterRounds * TopN
    /\ last_call = "next_batch"

\* C8: batch 0 is one linear and one random forest pipeline of the problem
\* type, every component with its default parameters, and producing it
\* creates no tuner and asks no tuner for a proposal
C8_NaiveBatch ==
    batch_number = 1 =>
        /\ Len(last_batch) = 2
        /\ FamilyOf(last_batch[1]) = "linear_model"
        /\ FamilyOf(last_batch[2]) = "random_forest"
        /\ \A i \in 1..2 :
              /\ EstimatorOf(last_batch[i]) \in Range(get_estimators(problem_type))
              /\ DOMAIN last_batch[i].parameters = {Imputer, EstimatorOf(last_batch[i])}
              /\ \A c \in DOMAIN last_batch[i].parameters :
                    last_batch[i].parameters[c] = DefaultParameters(c)
        /\ tuners = EmptyMap
        /\ tuner_count = 0

\* C8 witness: batch 0 of a regression problem was returned
C8_Witness ==
    /\ batch_number = 1
    /\ last_call = "next_batch"
    /\ problem_type = "regression"
    /\ EstimatorOf(last_batch[1]) = "Linear Regressor"
    /\ EstimatorOf(last_batch[2]) = "Random Forest Regressor"

NamesOf(batch) == {batch[i].name : i \in DOMAIN batch}

\* C9: batch 2 creates one tuner for each pipeline name it emits; every
\* tuner ever created is still the tuner of its name, none was replaced; and
\* the batches that propose for a name have all asked that one tuner
C9_TunersPersist ==
    /\ tuner_count = Cardinality(DOMAIN tuners)
    /\ \A a, b \in DOMAIN tuners : tuners[a].id = tuners[b].id => a = b
    /\ (NextBatchReturned /\ batch_number = 3) =>
            /\ DOMAIN tuners = NamesOf(last_batch)
            /\ \A name \in DOMAIN tuners : tuners[name].id <= Len(last_batch)
    /\ (batch_number >= 5 /\ last_strategy \in {"long_top_n", "tuning"}) =>
            \A name \in NamesOf(last_batch) :
                /\ name \in DOMAIN tuners
                /\ tuners[name].proposals =
                        FirstRounds + LaterRounds * ((batch_number - 5) \div 2)

\* C9 witness: a tuner created by batch 2 has served batch 4 and batch 6
C9_Witness ==
    /\ batch_number = 7
    /\ \E name \in DOMAIN tuners :
          /\ tuners[name].id <= 2
          /\ tuners[name].proposals = FirstRounds + LaterRounds

\* batch 4 was returned
LongTopNReturned == NextBatchReturned /\ batch_number = 5

\* batch 4 for the table `best`: the skeleton pipelines `top` of `count`
\* families, none of the other families with a lower score, the batch `batch`
LongTopN(best, top, batch, count) ==
    /\ Len(top) = count
    /\ Cardinality({FamilyOf(top[i]) : i \in DOMAIN top}) = count
    /\ \A i \in DOMAIN top :
          /\ FamilyOf(top[i]) \in Families(best)
          /\ top[i].name =
               PipelineName(EstimatorOf(best[IndexOf(best, FamilyOf(top[i]))].pipeline),
                            <<SelectColumns>>)
          /\ \A g \in Families(best) \ {FamilyOf(top[j]) : j \in DOMAIN top} :
                ~LessThan(CurrentBestScore(best, g),
                          CurrentBestScore(best, FamilyOf(top[i])))
          /\ top[i].name \in DOMAIN tuners
          /\ tuners[top[i].name].proposals = FirstRounds
          /\ Cardinality({j \in DOMAIN batch : batch[j].name = top[i].name}) = FirstRounds
    /\ Len(batch) = FirstRounds * count
    /\ \A j \in DOMAIN batch :
          batch[j].parameters[SelectColumns] = [columns |-> selected_cols]

TuningReturned == NextBatchReturned /\ last_strategy = "tuning"

\* a value of the dimension `dim`
Within(dim, value) ==
    IF dim.type = "Integer" THEN value \in dim.lo..dim.hi
    ELSE value \in Range(dim.choices)

\* a tuning batch over the skeleton pipelines `top`: `count` of them, each
\* sampled LaterRounds times from its own tuner, the columns of every
\* pipeline bound to the recorded selected columns
TuningBatch(top, batch, count) ==
    /\ Len(top) = count
    /\ Len(batch) = LaterRounds * count
    /\ \A i \in DOMAIN top :
          /\ top[i].name \in DOMAIN tuners
          /\ tuners[top[i].name].proposals =
                FirstRounds + LaterRounds * ((batch_number - 5) \div 2)
          /\ Cardinality({j \in DOMAIN batch : batch[j].name = top[i].name})
                = LaterRounds
    /\ \A j \in DOMAIN batch :
          /\ batch[j].name \in {top[i].name : i \in DOMAIN top}
          /\ batch[j].parameters[SelectColumns] = [columns |-> selected_cols]
          /\ \A d \in Range(tuners[batch[j].name].space) :
                d.param # "n_jobs" =>
                    Within(d.dim, batch[j].parameters[d.comp][d.param])

EnsembleReturned == NextBatchReturned /\ last_strategy = "ensemble"

\* the pipeline `input` is the pipeline of the table entry `entry` built anew
\* from the parameters stored in the entry, n_jobs apart
Reinstantiated(input, entry) ==
    /\ input.name = entry.pipeline.name
    /\ FamilyOf(input) = entry.family
    /\ DOMAIN input.parameters = DOMAIN entry.parameters
    /\ \A c \in DOMAIN input.parameters :
          /\ DOMAIN input.parameters[c] = DOMAIN entry.parameters[c]
          /\ \A q \in DOMAIN input.parameters[c] :
                q # "n_jobs" => input.parameters[c][q] = entry.parameters[c][q]

\* C12: every ensemble batch (batch 3 and every odd batch from 5 on) that is
\* returned holds exactly one stacked-ensemble pipeline; its inputs are one
\* pipeline per model family of the best-info table, in the order of the
\* table, none of them an ensemble, each built anew from the parameters
\* stored with that family's best score
C12_EnsembleBatch ==
    EnsembleReturned =>
        /\ batch_number - 1 = 3 \/ (batch_number - 1 >= 5 /\ (batch_number - 1) % 2 = 1)
        /\ Len(last_batch) = 1
        /\ FamilyOf(last_batch[1]) = ENSEMBLE
        /\ Len(last_batch[1].inputs) = Len(best_pipeline_info)
        /\ Cardinality(Families(best_pipeline_info)) = Len(best_pipeline_info)
        /\ \A i \in DOMAIN best_pipeline_info :
              /\ best_pipeline_info[i].family \in NonEnsembleFamilies
              /\ lowest_seen[best_pipeline_info[i].family].seen
              /\ Reinstantiated(last_batch[1].inputs[i], best_pipeline_info[i])

\* C12 witness: batch 5 is an ensemble of four families, one of them with the
\* parameters of a batch-4 proposal that differ from the defaults
C12_Witness ==
    /\ EnsembleReturned
    /\ batch_number = 6
    /\ Len(last_batch[1].inputs) = 4
    /\ \E i \in DOMAIN last_batch[1].inputs :
          \E c \in DOMAIN last_batch[1].inputs[i].parameters :
              \E q \in DOMAIN last_batch[1].inputs[i].parameters[c] \ {"n_jobs", "columns"} :
                  last_batch[1].inputs[i].parameters[c][q] # DefaultParameters(c)[q]

\* what the feature selector of a pipeline of the family reports
ColumnsReported(family) == IF family = "linear_model" THEN "colsA" ELSE "colsB"

\* the stored selected columns, once set, stay as they are
ColumnsKept == selected_cols # None => selected_cols' = selected_cols

\* the stored selected columns are set only by an add_result() call made
\* while batch_number is 2
ColumnsSetAtTwo ==
    (selected_cols = None /\ selected_cols' # None) =>
        last_call' = "add_result" /\ batch_number = CaptureAt

\* an add_result() call that returns while batch_number is 2 and no columns
\* are stored stores the names its pipeline's feature selector reports
ColumnsCaptured ==
    (last_call' = "add_result" /\ raised' = "none" /\ batch_number = CaptureAt
     /\ selected_cols = None) =>
        selected_cols' = ColumnsReported(last_args'.family)

\* C13: the selected columns are None until the first add_result() call made
\* while batch_number is 2, which stores the column names reported by the
\* feature selector of its pipeline; no later add_result() or next_batch()
\* call changes the stored value
C13_ColumnsCapturedOnce == [][ColumnsKept /\ ColumnsSetAtTwo /\ ColumnsCaptured]_vars

\* C13 witness: two results of the feature-selection batch were recorded,
\* whose selectors report different names; the names of the first are stored
C13_Witness ==
    /\ AddResultReturned
    /\ batch_number = CaptureAt
    /\ evaluated = 2
    /\ ColumnsReported(last_args.family) = "colsB"
    /\ selected_cols = "colsA"

\* some tuner has one observation more, the other tuners are as they were
OneObservationMore ==
    /\ DOMAIN tuners' = DOMAIN tuners
    /\ \E name \in DOMAIN tuners :
          /\ Len(tuners'[name].obs) = Len(tuners[name].obs) + 1
          /\ \A other \in DOMAIN tuners \ {name} : tuners'[other] = tuners[other]

\* C14: add_result() hands a result to add_result() of the base class, and so
\* to the tuner of the pipeline, if and only if the pipeline is not an
\* ensemble and batch_number >= 3: a result that is not handed on leaves
\* every tuner as it was and is not looked up in the tuner table; a result
\* with a number that is handed on and accepted is one more observation of
\* one tuner
C14_Forwarding ==
    [][last_call' = "add_result" =>
          /\ last_args'.forwarded <=>
                (last_args'.family # ENSEMBLE /\ batch_number >= 3)
          /\ ~last_args'.forwarded =>
                (tuners' = tuners /\ raised' # "PipelineNotFoundError")
          /\ (last_args'.forwarded /\ raised' = "none"
               /\ last_args'.score.kind \in {"num", "inf"}) => OneObservationMore]_vars

\* C14 witness: a result of batch 2 recorded while batch_number is 3 is an
\* observation of its tuner, and the results recorded before were not
C14_Witness ==
    /\ AddResultReturned
    /\ batch_number = 3
    /\ last_args.forwarded
    /\ last_args.score.kind = "num"
    /\ evaluated = 1
    /\ \E name \in DOMAIN tuners : Len(tuners[name].obs) = 1
    /\ Len(best_pipeline_info) >= 2

\* the constructor has just run on init_args
AfterInit == last_call = "init"

\* a value was supplied and it is not a dict
NotAMapping(value) == value.type \notin {"dict", "NoneType"}

\* C16 as stated: constructing the algorithm with custom hyperparameters that
\* are not a mapping fails with a ConfigurationError, for every such value
C16_NotAMappingConfigurationError ==
    (AfterInit /\ NotAMapping(init_args.custom_hyperparameters)) =>
        raised = "ConfigurationError"

\* C16 as amended: constructing the algorithm with custom hyperparameters
\* that are not a mapping fails with a ValueError when the value is truthy;
\* a falsy value that is not a mapping (an empty list, an empty string, 0) is
\* taken as no custom hyperparameters
C16_NotAMapping ==
    (AfterInit /\ NotAMapping(init_args.custom_hyperparameters)) =>
        IF init_args.custom_hyperparameters.truthy
        THEN raised = "ValueError"
        ELSE /\ custom_hyperparameters = EmptyMap
             /\ raised # "none" =>
                    \E value \in Leaves(init_args.pipeline_params.items) : IsSpace(value)

\* C16 witness: the constructor was given a list with one element and raised
C16_Witness ==
    /\ AfterInit
    /\ init_args.custom_hyperparameters = List(1)
    /\ init_args.pipeline_params = NoneValue
    /\ raised = "ValueError"

\* the custom hyperparameters are a dict with a value that is not a range
HasPlainLeaf(value) ==
    value.type = "dict" /\ \E leaf \in Leaves(value.items) : ~IsSpace(leaf)

\* C17 as stated: constructing the algorithm with custom hyperparameters in
\* which a leaf value is not an Integer, Real or Categorical fails with a
\* ConfigurationError
C17_PlainLeafConfigurationError ==
    (AfterInit /\ HasPlainLeaf(init_args.custom_hyperparameters)) =>
        raised = "ConfigurationError"

\* C17 as amended: constructing the algorithm with custom hyperparameters in
\* which a leaf value is not an Integer, Real or Categorical fails with a
\* ValueError
C17_PlainLeaf ==
    (AfterInit /\ HasPlainLeaf(init_args.custom_hyperparameters)) =>
        raised = "ValueError"

\* C17 witness: the constructor was given {"Estimator": {"x": 5}} and raised
C17_Witness ==
    /\ AfterInit
    /\ init_args.custom_hyperparameters = Dict("Estimator" :> <<Item("x", PlainInt(5))>>)
    /\ init_args.pipeline_params = NoneValue
    /\ raised = "ValueError"

\* the pipeline parameters are a dict with a value that is a range
HasRangeLeaf(value) ==
    value.type = "dict" /\ \E leaf \in Leaves(value.items) : IsSpace(leaf)

\* C18 as stated: constructing the algorithm with pipeline parameters in
\* which a value is an Integer, Real or Categorical fails with a
\* ConfigurationError
C18_RangeLeafConfigurationError ==
    (AfterInit /\ HasRangeLeaf(init_args.pipeline_params)) =>
        raised = "ConfigurationError"

\* C18 as amended: constructing the algorithm with pipeline parameters in
\* which a value is an Integer, Real or Categorical fails with a ValueError
C18_RangeLeaf ==
    (AfterInit /\ HasRangeLeaf(init_args.pipeline_params)) =>
        raised = "ValueError"

\* C18 witness: the constructor was given {"Estimator": {"n_jobs": Integer}}
\* and raised
C18_Witness ==
    /\ AfterInit
    /\ init_args.pipeline_params = Dict("Estimator" :> <<Item("n_jobs", Integer(1, 4))>>)
    /\ init_args.custom_hyperparameters = NoneValue
    /\ raised = "ValueError"

\* every component of the pipeline whose constructor accepts n_jobs has the
\* n_jobs of the algorithm
NJobsForced(pipeline) ==
    \A c \in DOMAIN pipeline.parameters :
        AcceptsNJobs(c) => pipeline.parameters[c]["n_jobs"] = n_jobs

\* the tuner of the pipeline proposes a value for n_jobs
ProposesNJobs(pipeline) ==
    /\ pipeline.name \in DOMAIN tuners
    /\ \E d \in Range(tuners[pipeline.name].space) : d.param = "n_jobs"

\* C15: in every pipeline built from a tuner proposal (batch 4 and the even
\* batches from 6 on) and in every input pipeline of an ensemble, each
\* component whose constructor accepts n_jobs has n_jobs equal to the n_jobs
\* of the algorithm, whatever the proposal or the stored parameters held
C15_NJobsForced ==
    /\ (NextBatchReturned /\ last_strategy \in {"long_top_n", "tuning"}) =>
            \A j \in DOMAIN last_batch : NJobsForced(last_batch[j])
    /\ EnsembleReturned =>
            \A i \in DOMAIN last_batch[1].inputs : NJobsForced(last_batch[1].inputs[i])

\* C15 witness: the algorithm has n_jobs 2 and batch 4 holds a pipeline whose
\* tuner proposes n_jobs between 3 and 4
C15_Witness ==
    /\ NextBatchReturned
    /\ last_strategy = "long_top_n"
    /\ n_jobs = 2
    /\ \E j \in DOMAIN last_batch :
          /\ ProposesNJobs(last_batch[j])
          /\ NJobsForced(last_batch[j])

\* the tuners whose search space is empty
EmptySpaceTuners == {name \in DOMAIN tuners : Len(tuners[name].space) = 0}

\* the pipeline has the default parameters of its components, n_jobs and
\* the selected columns apart
OnlyDefaults(pipeline) ==
    \A c \in DOMAIN pipeline.parameters :
        \A q \in DOMAIN pipeline.parameters[c] \ {"n_jobs", "columns"} :
            pipeline.parameters[c][q] = DefaultParameters(c)[q]

\* C19: propose() of a tuner with an empty search space returns an empty
\* nested mapping and never asks the backend, however many times it was
\* called and whatever add() calls came before: the backend of such a tuner
\* was never asked, its next proposal holds no parameter value, and the
\* pipelines built from its proposals have their default parameters
C19_EmptySpacePropose ==
    \A name \in EmptySpaceTuners :
        /\ tuners[name].asks = 0
        /\ \A c \in DOMAIN propose(tuners[name]) :
               DOMAIN propose(tuners[name])[c] = {}
        /\ (NextBatchReturned /\ last_strategy \in {"long_top_n", "tuning"}) =>
               \A j \in DOMAIN last_batch :
                   last_batch[j].name = name => OnlyDefaults(last_batch[j])

\* C19 witness: a tuner with an empty search space has proposed 60 times, in
\* batch 4 and in batch 6, and was given a result in between
C19_Witness ==
    \E name \in EmptySpaceTuners :
        /\ tuners[name].proposals = FirstRounds + LaterRounds
        /\ Len(tuners[name].obs) >= 1
        /\ \E j \in DOMAIN last_batch : last_batch[j].name = name

\* the add_result() call of this step handed a result without a score, None
\* or NaN, to a tuner
NullScoreAdded ==
    /\ last_call' = "add_result"
    /\ last_args'.forwarded
    /\ last_args'.score.kind \in {"none", "nan"}
    /\ raised' # "PipelineNotFoundError"

\* C20: add() of a tuner with the score None or NaN is a no-op: it records
\* no observation, raises nothing, and every tuner proposes afterwards what
\* it would have proposed before
C20_NullScoreNoOp ==
    [][NullScoreAdded =>
          /\ raised' = "none"
          /\ tuners' = tuners
          /\ \A name \in DOMAIN tuners :
                /\ tuners'[name].obs = tuners[name].obs
                /\ propose(tuners'[name]) = propose(tuners[name])]_vars

\* C20 witness: the tuner of a batch-2 pipeline was given a number and no
\* tuner was given the NaN that followed it
C20_Witness ==
    /\ AddResultReturned
    /\ batch_number = 3
    /\ last_args.forwarded
    /\ last_args.score = NaNScore
    /\ evaluated = 2
    /\ \E name \in DOMAIN tuners : Len(tuners[name].obs) = 1
    /\ \E name \in DOMAIN tuners : Len(tuners[name].obs) = 0

\* C21: add() of a tuner is a no-op whenever the score is not a finite
\* number, positive and negative infinity included: no tuner holds an
\* observation whose score is not a finite number
C21_OnlyFiniteObservations ==
    \A name \in DOMAIN tuners :
        \A i \in DOMAIN tuners[name].obs : tuners[name].obs[i].y = "num"

----------------------------------------------------------------------------
(* The tuner used on its own *)

\* the last call was an add() that reached the backend and was rejected by it
AddRejected == sk_call.op = "add" /\ sk_call.error # NoError

\* the dimension of the first coordinate the backend found outside its
\* dimension in the last add()
RejectingDimension ==
    LET flat == convert_to_flat_parameters(sk_tuner, sk_call.parameters)
    IN sk_tuner.space[FirstOutside(sk_tuner, flat)].dim

\* the backend rejected the last add() over a value of a numeric dimension
RejectedNumeric == AddRejected /\ RejectingDimension.type = "Integer"

\* C22: an add() the backend rejects because a value is outside its declared
\* numeric dimension raises ParameterError, not the error of the backend
C22_NumericRejectionParameterError ==
    RejectedNumeric => sk_call.raised = "ParameterError"

RoundTripSpace ==
    /\ Len(sk_tuner.space) = 2
    /\ sk_tuner.space[1].dim = Integer(0, 10)
    /\ sk_tuner.space[2].dim = Categorical(<<"a", "b", "c">>)

\* the proposal gives every parameter of the space a value of its dimension
ProposalInSpace ==
    /\ HasAllFields(sk_tuner, sk_call.proposal)
    /\ \A j \in 1..Len(sk_tuner.space) :
          InDimension(convert_to_flat_parameters(sk_tuner, sk_call.proposal)[j],
                      sk_tuner.space[j].dim)

\* the last call was an add() of the last proposal with a finite score
ProposalAdded ==
    /\ sk_call.op = "add"
    /\ sk_call.calls > 1
    /\ sk_call.parameters = sk_call.proposal
    /\ sk_call.score.kind = "num"

\* C24: with an integer dimension [0, 10] and a categorical dimension
\* {a, b, c}, after any sequence of propose and add calls every proposal
\* gives each parameter a value of its dimension, and an add() of that
\* proposal with a finite score does not raise
C24_RoundTrip ==
    RoundTripSpace =>
        /\ sk_call.op = "propose" => ProposalInSpace
        /\ ProposalAdded => sk_call.raised = "none"

\* a proposal made after an observation and a rejected add() has been added
\* with a finite score, and is the second observation of the tuner
C24_Witness ==
    /\ RoundTripSpace
    /\ ProposalAdded
    /\ sk_call.calls = MaxCalls
    /\ Len(sk_tuner.obs) = 2
    /\ sk_tuner.proposals = 1
    /\ sk_tuner.obs[2].x = convert_to_flat_parameters(sk_tuner, sk_call.proposal)

----------------------------------------------------------------------------
(* search() *)

\* the calls search() makes when it runs the search, in order
FullLog == <<"validate", "AutoMLSearch", "search">>

\* search() has returned
SearchReturned == search_call.pc = "done" /\ Len(search_call.returned) = 1

SearchBuilt == Len(search_call.automl) = 1

----------------------------------------------------------------------------
(* Ensembles of few families *)

\* next_batch() is called at an ensemble batch while the best-info table
\* holds fewer than 2 model families
FewFamiliesEnsembleCall ==
    /\ last_call' = "next_batch"
    /\ Strategy(batch_number) = "ensemble"
    /\ Len(best_pipeline_info) < 2

\* C27: a next_batch() call at an ensemble batch with fewer than 2 model
\* families in the best-info table, one or none, does not fail: it returns
\* an ensemble of the pipelines the table holds
C27_EnsembleOfFewFamilies ==
    [][FewFamiliesEnsembleCall =>
          /\ raised' = "none"
          /\ last_strategy' = "ensemble"
          /\ Len(last_batch') = 1
          /\ FamilyOf(last_batch'[1]) = ENSEMBLE
          /\ Len(last_batch'[1].inputs) = Len(best_pipeline_info)]_vars

----------------------------------------------------------------------------
(* The top pipelines *)

\* the top pipelines a selection made now would give
TopNow == TopPipelines(best_pipeline_info, TopN)

\* C28: the top pipelines are assigned only by the next_batch() call of batch
\* 4; no later next_batch() or add_result() call changes them, whatever the
\* later results do to the ranking of the model families, and every even
\* batch from 6 on tunes those same pipelines
C28_TopPipelinesFixed ==
    [][/\ top_n_pipelines' # top_n_pipelines =>
             last_call' = "next_batch" /\ batch_number = 4
       /\ (last_call' = "next_batch" /\ raised' = "none" /\ last_strategy' = "tuning") =>
             /\ batch_number >= 6
             /\ top_n_pipelines' = top_n_pipelines
             /\ NamesOf(last_batch') = NamesOf(top_n_pipelines.pipelines)]_vars

\* batch 6 was returned over the three pipelines fixed at batch 4 although
\* another family is among the three best by now
C28_Witness ==
    /\ TuningReturned
    /\ batch_number = 7
    /\ Len(top_n_pipelines.pipelines) = TopN
    /\ NamesOf(TopNow) # NamesOf(top_n_pipelines.pipelines)

----------------------------------------------------------------------------
(* Batch 2 *)

\* batch 2 was returned
FastFinalReturned == NextBatchReturned /\ last_strategy = "fast_final"

\* batch 2 holds one pipeline per estimator of the problem type that is not
\* a naive one, each with a column-selection component, and every pipeline
\* has a tuner of its own
OnePerEstimator ==
    /\ Len(last_batch) = Cardinality(Range(get_estimators(problem_type))
                                      \ Range(naive_estimators(problem_type)))
    /\ {EstimatorOf(last_batch[i]) : i \in DOMAIN last_batch}
          = Range(get_estimators(problem_type)) \ Range(naive_estimators(problem_type))
    /\ \A i \in DOMAIN last_batch :
          /\ last_batch[i].name[2] = <<SelectColumns>>
          /\ last_batch[i].name \in DOMAIN tuners
          /\ \A j \in DOMAIN last_batch :
                tuners[last_batch[i].name].id = tuners[last_batch[j].name].id => i = j

\* C29 as stated: the selected-columns parameter of every pipeline of batch 2
\* is left unbound
C29_ColumnsUnbound ==
    FastFinalReturned =>
        /\ OnePerEstimator
        /\ \A i \in DOMAIN last_batch :
              last_batch[i].parameters[SelectColumns].columns = None

\* C29: batch 2 holds one pipeline per estimator of the problem type that is
\* not a naive one, each with a column-selection component whose
\* selected-columns parameter is set to the recorded selected columns (unset
\* only when none were recorded), and a tuner is created for every pipeline
C29_FastFinalBatch ==
    FastFinalReturned =>
        /\ OnePerEstimator
        /\ \A i \in DOMAIN last_batch :
              last_batch[i].parameters[SelectColumns] = [columns |-> selected_cols]

\* batch 2 was returned after the columns of a batch-1 result were recorded
C29_Witness == FastFinalReturned /\ selected_cols # None

----------------------------------------------------------------------------
(* The parallelism of the ensemble *)

\* the n_jobs the stacked ensemble of the last batch was built with
EnsembleBuiltWith == last_batch[1].parameters[StackedEnsemble(problem_type)].n_jobs

\* C30: with text in ensembling every ensemble batch builds the stacked
\* ensemble with n_jobs = 1, serial execution; without, with the n_jobs the
\* algorithm was configured with
C30_EnsembleNJobs ==
    EnsembleReturned =>
        /\ text_in_ensembling => EnsembleBuiltWith = 1
        /\ ~text_in_ensembling => EnsembleBuiltWith = n_jobs

\* batch 5 was returned as a serial ensemble by an algorithm with text in
\* ensembling that was configured with another n_jobs
C30_Witness ==
    /\ EnsembleReturned
    /\ batch_number = 6
    /\ text_in_ensembling
    /\ n_jobs # 1
    /\ EnsembleBuiltWith = 1

----------------------------------------------------------------------------
(* Errors of the tuners *)

\* the tuner of the result raised in the last add_result() call
TunerRaised == last_call = "add_result" /\ last_args.told # "none"

ParameterErrorRaised == sk_call.op = "add" /\ sk_call.raised = "ParameterError"

\* the message of the ParameterError holds the parameters add() was given
CarriesParameters ==
    \E i \in DOMAIN sk_call.message :
        /\ sk_call.message[i].name = "parameters"
        /\ sk_call.message[i].value = sk_call.parameters

\* the message of the ParameterError holds the score add() was given
CarriesScore ==
    \E i \in DOMAIN sk_call.message :
        /\ sk_call.message[i].name = "score"
        /\ sk_call.message[i].value = sk_call.score

\* C32 as stated: the ParameterError of add() carries the parameters and the
\* score add() was given
C32_CarriesParametersAndScore ==
    ParameterErrorRaised => CarriesParameters /\ CarriesScore

\* C32: the ParameterError of add() carries the parameters add() was given
\* and the message of the backend's error; it does not carry the score
C32_CarriesParameters ==
    ParameterErrorRaised =>
        /\ CarriesParameters
        /\ \E i \in DOMAIN sk_call.message :
              /\ sk_call.message[i].name = "error"
              /\ sk_call.message[i].value = sk_call.error.message
        /\ ~CarriesScore

\* add() has raised a ParameterError for a None given for the integer
\* dimension, with a finite score
C32_Witness ==
    /\ ParameterErrorRaised
    /\ sk_call.parameters[Component]["param a"] = NoneNumber
    /\ sk_call.score.kind = "num"

----------------------------------------------------------------------------
(* A next_batch() call that raises *)

\* C33: a next_batch() call that raises leaves batch_number and
\* pipeline_number as they were, and a next_batch() call that returns has
\* returned the batch of the batch_number it was called at: the call after a
\* failed one attempts the same batch again
C33_FailedBatchIsRetried ==
    [][last_call' = "next_batch" =>
          IF raised' # "none"
          THEN batch_number' = batch_number /\ pipeline_number' = pipeline_number
          ELSE batch_number' = batch_number + 1
               /\ last_strategy' = ExpectedStrategy(batch_number)]_vars

\* next_batch() has raised at the first ensemble batch and batch_number is
\* still 3
C33_Witness ==
    /\ last_call = "next_batch"
    /\ raised = "IndexError"
    /\ batch_number = 3
    /\ pipeline_number = pipelines_returned

----------------------------------------------------------------------------
(* The sizes of the long batches *)

\* the batch takes its pipelines from `top` in turn, one of each per round
RoundRobin(batch, top) ==
    \A j \in DOMAIN batch : batch[j].name = top[((j - 1) % Len(top)) + 1].name

\* the smaller of 3 and the number of model families in the best-info table
FamiliesTaken == IF Len(best_pipeline_info) < 3 THEN Len(best_pipeline_info) ELSE 3

----------------------------------------------------------------------------
(* The tuning batches find what they need *)

\* C35: once batch 4 has been returned, batch_number >= 5, the top pipelines
\* are set and every one of them has a tuner under its name, and no
\* next_batch() call has failed: an even batch from 6 on does not fail on
\* missing top pipelines or on a missing tuner
C35_TuningFindsTuners ==
    batch_number >= 5 =>
        /\ ~top_n_pipelines.is_none
        /\ \A i \in DOMAIN top_n_pipelines.pipelines :
              top_n_pipelines.pipelines[i].name \in DOMAIN tuners
        /\ last_call = "next_batch" => raised = "none"

\* batch 6 was returned, and one of its top pipelines has a tuner that was
\* created at batch 4, its name not being one of batch 2
C35_Witness ==
    /\ TuningReturned
    /\ batch_number = 7
    /\ \E i \in DOMAIN top_n_pipelines.pipelines :
          EstimatorOf(top_n_pipelines.pipelines[i])
              \in Range(naive_estimators(problem_type))

----------------------------------------------------------------------------
(* The order of the steps of add_result *)

\* an add_result() call returns at a batch_number below 3 for a pipeline that
\* is no ensemble, with a score that is not null and strictly lower than the
\* best score of the family
BetterBeforeThree ==
    /\ last_call' = "add_result"
    /\ raised' = "none"
    /\ batch_number < 3
    /\ last_args'.family # ENSEMBLE
    /\ ~IsNull(last_args'.score)
    /\ LessThan(last_args'.score,
                CurrentBestScore(best_pipeline_info, last_args'.family))

\* C36: the update of the best-info table does not look at batch_number: a
\* result of a pipeline that is no ensemble with a strictly better score that
\* is not null becomes the entry of its family also at batch_number 0, 1 and
\* 2, when the result is not handed to the base class
C36_UpdateAtEveryBatch ==
    [][BetterBeforeThree =>
          /\ ~last_args'.forwarded
          /\ tuners' = tuners
          /\ last_args'.family \in Families(best_pipeline_info')
          /\ CurrentBestScore(best_pipeline_info', last_args'.family)
                = last_args'.score]_vars

\* the result of a naive pipeline of batch 0 is in the table at batch_number 1
C36_Witness ==
    /\ AddResultReturned
    /\ batch_number = 1
    /\ ~last_args.forwarded
    /\ last_args.score.kind = "num"
    /\ last_args.family \in Families(best_pipeline_info)
    /\ CurrentBestScore(best_pipeline_info, last_args.family) = last_args.score

\* C37: an add_result() call in which the forwarding to the base class
\* raises changes neither the best-info table nor the selected columns: the
\* result the tuner rejected is not recorded as the best of its family
C37_RejectedResultNotRecorded ==
    [][(last_call' = "add_result" /\ last_args'.told # "none") =>
          /\ best_pipeline_info' = best_pipeline_info
          /\ selected_cols' = selected_cols]_vars

\* the tuner has rejected a result with a score lower than the best score of
\* its family, and the table holds the old score
C37_Witness ==
    /\ TunerRaised
    /\ last_args.score.kind = "num"
    /\ LessThan(last_args.score, CurrentBestScore(best_pipeline_info, last_args.family))

\* an add_result() call returns while batch_number is 2 with a score that is
\* null or not strictly lower than the best score of the family
NotBetterAtTwo ==
    /\ last_call' = "add_result"
    /\ raised' = "none"
    /\ batch_number = CaptureAt
    /\ \/ IsNull(last_args'.score)
       \/ ~LessThan(last_args'.score,
                    CurrentBestScore(best_pipeline_info, last_args'.family))

\* C38: the capture of the selected columns depends neither on the score nor
\* on the update of the best-info table: the first add_result() call made
\* while batch_number is 2 stores the names its feature selector reports also
\* when its score is null or not better than the best of its family and the
\* table stays as it is, and a later call, whatever its score, leaves the
\* stored names as they are
C38_CaptureWhateverTheScore ==
    [][/\ (NotBetterAtTwo /\ selected_cols = None) =>
             /\ selected_cols' = ColumnsReported(last_args'.family)
             /\ best_pipeline_info' = best_pipeline_info
       /\ (last_call' = "add_result" /\ batch_number = CaptureAt
           /\ selected_cols # None) => selected_cols' = selected_cols]_vars

\* the first result of the feature-selection batch came with a null score:
\* the names of its selector are stored
C38_Witness ==
    /\ AddResultReturned
    /\ batch_number = CaptureAt
    /\ evaluated = 1
    /\ IsNull(last_args.score)
    /\ selected_cols = ColumnsReported(last_args.family)

\* what next_batch() advances and add_result() leaves alone
Progress == <<batch_number, pipeline_number, top_n_pipelines, DOMAIN tuners>>

\* C39: add_result() never changes batch_number, pipeline_number, the top
\* pipelines or the names that have a tuner, whether it returns or raises;
\* a step that changes one of them is a next_batch() call
C39_AddResultKeepsProgress ==
    [][/\ last_call' = "add_result" => Progress' = Progress
       /\ Progress' # Progress => last_call' = "next_batch"]_vars

\* a result came in after batch 4 was returned and is an observation of its
\* tuner; the counters are those of the five batches, the top pipelines are
\* chosen
C39_Witness ==
    /\ AddResultReturned
    /\ batch_number = 5
    /\ pipeline_number = pipelines_returned
    /\ ~top_n_pipelines.is_none
    /\ last_args.forwarded
    /\ \E name \in DOMAIN tuners : Len(tuners[name].obs) >= 1
====
